---------------------------- MODULE Spec2Model ----------------------------
(***************************************************************************)
(* State-machine model of the PowerPoint generator MCP server              *)
(* (src/src/index.ts): the two registries `instances` and `slides`, the   *)
(* asynchronous port search of the file server, and the seven tool         *)
(* handlers.  Strings are sequences of one-character strings, so that      *)
(* template literals, path.join and encodeURIComponent are computed, not   *)
(* assumed.  Coordinates are in hundredths of an inch (5.5 is 550).        *)
(***************************************************************************)
EXTENDS Integers, Sequences, FiniteSets, TLC

VARIABLES
    connected,          \* main() has connected the stdio transport
    portState,          \* "searching" | "found" | "failed" (process exited)
    file_server_port,   \* the module variable of that name
    boundPort,          \* port passed to app.listen, 0 while none
    instances,          \* document id -> document handle
    slides,             \* slide id -> slide handle
    used,               \* ids nanoid() has returned so far
    pending,            \* get-file-url calls suspended at `await pptx.writeFile`
    files,              \* path written in FILES_DIR -> ids of the documents written there
    okCount,            \* document id -> number of get-file-url successes returned
    last                \* the tool call completed most recently, with its outcome

vars == <<connected, portState, file_server_port, boundPort, instances, slides,
          used, pending, files, okCount, last>>

-----------------------------------------------------------------------------
(* Bounds of the model *)

\* number of ids drawn from nanoid()
MaxIds == 2
\* number of get-file-url calls that may be suspended at the same time
MaxPending == 2
\* longest title enumerated by the file-name specification
MaxTitleLen == 2

(* Program constants *)

BASE_PORT == 60000
\* z.number().min(0)
CoordMin == 0
\* z.number().max(10), in hundredths
XMax == 1000
\* z.number().max(5.5), in hundredths
YMax == 550
\* border pt: z.number().min(0).max(10), in hundredths
PtMax == 1000
\* fontSize default
DefaultFontSize == 18

-----------------------------------------------------------------------------
(* Strings *)

RECURSIVE Flatten(_)
Flatten(parts) ==
    IF parts = <<>> THEN <<>> ELSE Head(parts) \o Flatten(Tail(parts))

\* String.prototype.includes on character sequences
Contains(text, s) ==
    \E i \in 1..(Len(text) - Len(s) + 1) : SubSeq(text, i, i + Len(s) - 1) = s

\* all sequences over alphabet of length at most n
RECURSIVE SeqsUpTo(_, _)
SeqsUpTo(alphabet, n) ==
    IF n = 0 THEN {<<>>}
    ELSE LET shorter == SeqsUpTo(alphabet, n - 1)
         IN  shorter \cup {Append(s, c) : s \in shorter, c \in alphabet}

\* Values nanoid() can return: fixed-size strings over the url-safe alphabet
\* (which contains "-" and "_"); a sample of that set.
NanoIds == { <<"a", "a">>, <<"a", "-">>, <<"-", "a">>, <<"-", "-">> }

\* An id no handler has ever stored, and a key every JavaScript object literal
\* inherits from Object.prototype.
UnknownId == <<"z", "z">>
ProtoKey == <<"c", "o", "n", "s", "t", "r", "u", "c", "t", "o", "r">>
ObjectPrototypeKeys == { ProtoKey }

DefaultTitle == <<"PowerPoint Presentation">>


-----------------------------------------------------------------------------
(* File names and URLs *)

Dash == <<"-">>
PptxExt == <<".", "p", "p", "t", "x">>

\* FILES_DIR = path.join(os.tmpdir(), "mcp-powerpoint-generator"), as segments
FILES_DIR == << <<"t", "m", "p">>, <<"m", "c", "p">> >>

\* the segments of a path between its "/" separators
RECURSIVE SplitPath(_, _, _)
SplitPath(chars, cur, acc) ==
    IF chars = <<>> THEN Append(acc, cur)
    ELSE IF Head(chars) = "/" THEN SplitPath(Tail(chars), <<>>, Append(acc, cur))
    ELSE SplitPath(Tail(chars), Append(cur, Head(chars)), acc)

\* path.normalize on segments: "" and "." are dropped, ".." removes the
\* segment before it
RECURSIVE NormalizeSegs(_, _)
NormalizeSegs(segs, acc) ==
    IF segs = <<>> THEN acc
    ELSE LET s == Head(segs)
         IN  IF s = <<>> \/ s = <<".">> THEN NormalizeSegs(Tail(segs), acc)
             ELSE IF s = <<".", ".">>
                  THEN NormalizeSegs(Tail(segs),
                         IF acc = <<>> THEN acc ELSE SubSeq(acc, 1, Len(acc) - 1))
             ELSE NormalizeSegs(Tail(segs), Append(acc, s))

PathJoin(dir, name) == NormalizeSegs(dir \o SplitPath(name, <<>>, <<>>), <<>>)

\* `${title}-${id}.pptx`
BaseNameNoId(title, id) == title \o PptxExt
BaseName(title, id) == title \o Dash \o id \o PptxExt

\* path.join(FILES_DIR, `${title}-${id}.pptx`)
FileName(title, id) == PathJoin(FILES_DIR, BaseName(title, id))

\* encodeURIComponent on the characters the model uses
EncodeChar(c) == IF c = "/" THEN <<"%", "2", "F">> ELSE <<c>>
EncodeURIComponent(s) == Flatten([i \in 1..Len(s) |-> EncodeChar(s[i])])

\* `.../${encodeURIComponent(title)}-${id}.pptx`
UrlName(title, id) == EncodeURIComponent(title) \o Dash \o id \o PptxExt

-----------------------------------------------------------------------------
(* Registries: plain JavaScript objects used as maps *)

\* `!obj[key]` is false: the key is an own property holding a handle, or is
\* inherited from Object.prototype (a function, hence truthy)
Truthy(reg, key) == key \in DOMAIN reg \/ key \in ObjectPrototypeKeys

\* obj[key] = value
Put(reg, key, value) ==
    [k \in DOMAIN reg \cup {key} |-> IF k = key THEN value ELSE reg[k]]

\* delete obj[key]
DeleteKeyNoop(reg, key) == reg
DeleteKey(reg, key) == [k \in DOMAIN reg \ {key} |-> reg[k]]

EmptyRegistry == [k \in {} |-> 0]

-----------------------------------------------------------------------------
(* Call results *)

NoUrl == [port |-> 0, name |-> <<>>]
NoRender == [called |-> FALSE, method |-> "none", opts |-> EmptyRegistry]

\* outcome: "none" | "ok" | "notFound" | "collabError" | "invalid" | "thrown"
\* afterFinal: the call started after a get-file-url on the same id had succeeded
\* afterFailure: the call completed just before was a failed write of the same id
\* absent: the id the call names was not in its registry when the call started
\* raised: the rendering collaborator raised an exception during the call
\* regsChanged: the call changed `instances` or `slides`
\* envelope: the handler returned {content, isError}
Result(op, id, outcome, envelope, isError, text) ==
    [op |-> op, id |-> id, outcome |-> outcome, envelope |-> envelope,
     isError |-> isError, text |-> text, url |-> NoUrl, afterFinal |-> FALSE,
     afterFailure |-> FALSE, absent |-> FALSE, raised |-> FALSE,
     regsChanged |-> FALSE, raw |-> EmptyRegistry, render |-> NoRender]

NoResult == Result("none", <<>>, "none", FALSE, FALSE, <<>>)

DocNotFoundText(id) ==
    <<"PowerPoint presentation \"">> \o id \o <<"\" not found, please create it first.">>
SlideNotFoundText(id) ==
    <<"Slide \"">> \o id \o <<"\" not found, please create it first.">>

Finalized == {id \in NanoIds : okCount[id] > 0}

Alive == connected /\ portState # "failed"

-----------------------------------------------------------------------------
(* Start-up *)

Init ==
    /\ connected = FALSE
    /\ portState = "searching"
    /\ file_server_port = BASE_PORT
    /\ boundPort = 0
    /\ instances = EmptyRegistry
    /\ slides = EmptyRegistry
    /\ used = {}
    /\ pending = EmptyRegistry
    /\ files = EmptyRegistry
    /\ okCount = [id \in NanoIds |-> 0]
    /\ last = NoResult

\* main(): server.connect(transport); from here on tool calls are dispatched
Main ==
    /\ ~connected
    /\ connected' = TRUE
    /\ UNCHANGED <<portState, file_server_port, boundPort, instances, slides, used,
                   pending, files, okCount, last>>

\* portfinder.getPort callback, err = null: runs after the module's top level
PortFound(port) ==
    /\ connected
    /\ portState = "searching"
    /\ portState' = "found"
    /\ file_server_port' = port
    /\ boundPort' = port
    /\ UNCHANGED <<connected, instances, slides, used, pending, files, okCount, last>>

\* portfinder.getPort callback, err set: process.exit(1)
PortFail ==
    /\ connected
    /\ portState = "searching"
    /\ portState' = "failed"
    /\ UNCHANGED <<connected, file_server_port, boundPort, instances, slides, used,
                   pending, files, okCount, last>>

-----------------------------------------------------------------------------
(* create-presentation, add-slide, get-file-url *)

CreatePresentation(id, title) ==
    /\ Alive
    /\ Cardinality(used) < MaxIds
    /\ id \in NanoIds \ used
    /\ used' = used \cup {id}
    /\ instances' = Put(instances, id, [title |-> title])
    /\ last' = [Result("create-presentation", id, "ok", TRUE, FALSE,
                       <<"PowerPoint presentation \"">> \o id \o <<"\" created.">>)
                  EXCEPT !.regsChanged = TRUE]
    /\ UNCHANGED <<connected, portState, file_server_port, boundPort, slides,
                   pending, files, okCount>>

AddSlide(id, slideId) ==
    /\ Alive
    /\ IF ~Truthy(instances, id)
       THEN /\ last' = [Result("add-slide", id, "notFound", TRUE, TRUE, DocNotFoundText(id))
                          EXCEPT !.afterFinal = id \in Finalized, !.absent = TRUE]
            /\ UNCHANGED <<slides, used>>
       ELSE IF id \notin DOMAIN instances
       THEN \* pptx is an inherited property: nanoid() is called, then
            \* pptx.addSlide() throws a TypeError outside any try block
            /\ Cardinality(used) < MaxIds
            /\ slideId \in NanoIds \ used
            /\ used' = used \cup {slideId}
            /\ last' = [Result("add-slide", id, "thrown", FALSE, FALSE,
                               <<"TypeError: pptx.addSlide is not a function">>)
                          EXCEPT !.afterFinal = id \in Finalized, !.absent = TRUE]
            /\ UNCHANGED slides
       ELSE /\ slideId \in NanoIds \ used
            /\ Cardinality(used) < MaxIds
            /\ used' = used \cup {slideId}
            /\ slides' = Put(slides, slideId, [doc |-> id])
            /\ last' = [Result("add-slide", id, "ok", TRUE, FALSE,
                               <<"Slide \"">> \o slideId \o <<"\" added to presentation \"">>
                                 \o id \o <<"\".">>)
                          EXCEPT !.afterFinal = id \in Finalized, !.regsChanged = TRUE]
    /\ UNCHANGED <<connected, portState, file_server_port, boundPort, instances,
                   pending, files, okCount>>

\* the suspended calls are a bag: call record -> how many are suspended
PendingCalls == DOMAIN pending
PendingCount == IF PendingCalls = {} THEN 0
                ELSE LET RECURSIVE Sum(_)
                         Sum(S) == IF S = {} THEN 0
                                   ELSE LET c == CHOOSE x \in S : TRUE
                                        IN  pending[c] + Sum(S \ {c})
                     IN  Sum(PendingCalls)
Suspend(call) ==
    IF call \in DOMAIN pending THEN [pending EXCEPT ![call] = @ + 1]
    ELSE Put(pending, call, 1)
Resume(call) ==
    IF pending[call] > 1 THEN [pending EXCEPT ![call] = @ - 1]
    ELSE [c \in DOMAIN pending \ {call} |-> pending[c]]

\* get-file-url up to `await pptx.writeFile(...)`
GetFileUrlStart(id) ==
    /\ Alive
    /\ IF ~Truthy(instances, id)
       THEN /\ last' = [Result("get-file-url", id, "notFound", TRUE, TRUE, DocNotFoundText(id))
                          EXCEPT !.afterFinal = id \in Finalized, !.absent = TRUE]
            /\ UNCHANGED pending
       ELSE IF id \notin DOMAIN instances
       THEN \* pptx.writeFile is not a function: thrown inside the try block
            /\ last' = [Result("get-file-url", id, "collabError", TRUE, TRUE,
                               <<"Error saving PowerPoint presentation \"">> \o id \o <<"\": ">>
                                 \o <<"TypeError: pptx.writeFile is not a function">>)
                          EXCEPT !.afterFinal = id \in Finalized, !.absent = TRUE]
            /\ UNCHANGED pending
       ELSE /\ PendingCount < MaxPending
            /\ LET t == instances[id].title
               IN  pending' = Suspend([id |-> id,
                                       title |-> IF t = <<>> THEN DefaultTitle ELSE t,
                                       afterFinal |-> id \in Finalized])
            /\ UNCHANGED last
    /\ UNCHANGED <<connected, portState, file_server_port, boundPort, instances, slides,
                   used, files, okCount>>

\* the write resolved: delete both keys, return the URL
GetFileUrlWriteOk(call) ==
    /\ Alive
    /\ call \in PendingCalls
    /\ LET id == call.id
           title == call.title
           path == FileName(title, id)
           before == IF path \in DOMAIN files THEN files[path] ELSE {}
       IN  /\ files' = Put(files, path, before \cup {id})
           /\ instances' = DeleteKey(instances, id)
           /\ slides' = DeleteKey(slides, id)
           /\ okCount' = [okCount EXCEPT ![id] = @ + 1]
           /\ last' = [Result("get-file-url", id, "ok", TRUE, FALSE, <<>>)
                         EXCEPT !.url = [port |-> file_server_port, name |-> UrlName(title, id)],
                                !.afterFinal = call.afterFinal,
                                !.afterFailure = (last.op = "get-file-url" /\ last.id = id
                                                  /\ last.outcome = "collabError"),
                                !.regsChanged = (instances' # instances \/ slides' # slides)]
    /\ pending' = Resume(call)
    /\ UNCHANGED <<connected, portState, file_server_port, boundPort, used>>

\* the write rejected: caught, error envelope
GetFileUrlWriteFail(call) ==
    /\ Alive
    /\ call \in PendingCalls
    /\ LET id == call.id
       IN  last' = [Result("get-file-url", id, "collabError", TRUE, TRUE,
                           <<"Error saving PowerPoint presentation \"">> \o id \o <<"\": ">>
                             \o <<"Error: write failed">>)
                      EXCEPT !.afterFinal = call.afterFinal, !.raised = TRUE]
    /\ pending' = Resume(call)
    /\ UNCHANGED <<connected, portState, file_server_port, boundPort, instances, slides,
                   used, files, okCount>>

-----------------------------------------------------------------------------
(* add-text, add-table, add-shape, add-chart: schemas *)

ElementOps == {"add-text", "add-table", "add-shape", "add-chart"}

InRange(v, lo, hi) == lo <= v /\ v <= hi

\* z.object({type, pt, color}) of a table or cell border
BorderOkExclusive(b) ==
    b.type \in {"none", "solid", "dash"} /\ CoordMin <= b.pt /\ b.pt < PtMax
BorderOk(b) ==
    b.type \in {"none", "solid", "dash"} /\ InRange(b.pt, CoordMin, PtMax)

\* z.object({color, transparency?})
FillOk(f) == "transparency" \in DOMAIN f => InRange(f.transparency, 0, 100)

\* the options object of a table cell
CellOptionsOk(o) ==
    /\ "align" \in DOMAIN o => o.align \in {"left", "center", "right"}
    /\ "border" \in DOMAIN o => BorderOk(o.border)
    /\ "fill" \in DOMAIN o => FillOk(o.fill)

CellOk(c) == "options" \in DOMAIN c => CellOptionsOk(c.options)

\* the `line` object of add-shape
LineOk(l) ==
    /\ l.dashType \in {"dash", "dashDot", "lgDash", "lgDashDot", "lgDashDotDot",
                       "solid", "sysDash", "sysDot"}
    /\ l.beginArrowType \in {"arrow", "diamond", "oval", "stealth", "triangle", "none"}
    /\ l.endArrowType \in {"arrow", "diamond", "oval", "stealth", "triangle", "none"}
    /\ InRange(l.transparency, 0, 100)
    /\ InRange(l.width, 1, 256)

\* one field of one schema
FieldOk(op, k, v) ==
    CASE k \in {"x", "w"} -> InRange(v, CoordMin, XMax)
      [] k \in {"y", "h"} -> InRange(v, CoordMin, YMax)
      [] k = "align" -> IF op = "add-text"
                        THEN v \in {"left", "center", "right", "justify"}
                        ELSE v \in {"left", "center", "right"}
      [] k = "border" -> BorderOk(v)
      [] k = "fill" -> FillOk(v)
      [] k = "colW" -> \A i \in 1..Len(v) : InRange(v[i], CoordMin, XMax)
      [] k = "rowH" -> \A i \in 1..Len(v) : InRange(v[i], CoordMin, YMax)
      [] k = "data" -> IF op = "add-table"
                       THEN \A r \in 1..Len(v) : \A c \in 1..Len(v[r]) : CellOk(v[r][c])
                       ELSE TRUE
      [] k = "line" -> LineOk(v)
      [] k = "rectRadius" -> InRange(v, 0, 100)
      [] k = "rotate" -> InRange(v, -360, 360)
      [] OTHER -> TRUE

RequiredKeys(op) ==
    {"slideId", "x", "y", "w", "h"} \cup
    CASE op = "add-text" -> {"text"}
      [] op = "add-table" -> {"data"}
      [] op = "add-shape" -> {"shape"}
      [] op = "add-chart" -> {"chartType", "data"}

\* zod's parse of the raw arguments succeeds
Valid(op, raw) ==
    /\ RequiredKeys(op) \subseteq DOMAIN raw
    /\ \A k \in DOMAIN raw : FieldOk(op, k, raw[k])

\* .optional().default(...) of each schema
Defaults(op) ==
    CASE op = "add-text" -> [bold |-> FALSE, fontSize |-> DefaultFontSize]
      [] op = "add-table" -> [bold |-> FALSE, fontSize |-> DefaultFontSize]
      [] op = "add-shape" -> [flipH |-> FALSE, flipV |-> FALSE]
      [] op = "add-chart" -> EmptyRegistry

ParseCell(c) ==
    IF "options" \in DOMAIN c
    THEN [c EXCEPT !.options = @ @@ [bold |-> FALSE, fontSize |-> DefaultFontSize]]
    ELSE c

\* the parsed arguments handed to the handler: defaults filled in
Parse(op, raw) ==
    LET filled == raw @@ Defaults(op)
    IN  IF op = "add-table"
        THEN [filled EXCEPT !.data =
                [r \in 1..Len(@) |-> [c \in 1..Len(@[r]) |-> ParseCell(@[r][c])]]]
        ELSE filled

\* the keys each handler destructures and puts into the options object
HandlerKeys(op) ==
    CASE op = "add-text" -> {"x", "y", "w", "h", "align", "bold", "color", "fontSize"}
      [] op = "add-table" -> {"x", "y", "w", "h", "colW", "rowH", "align", "bold", "border",
                              "color", "fill", "fontSize", "fontFace"}
      [] op = "add-shape" -> {"x", "y", "w", "h", "fill"}
      [] op = "add-chart" -> {"x", "y", "w", "h"}

\* the keys passed positionally, before the options object
PositionalKeys(op) ==
    CASE op = "add-text" -> <<"text">>
      [] op = "add-table" -> <<"data">>
      [] op = "add-shape" -> <<"shape">>
      [] op = "add-chart" -> <<"chartType", "data">>

Method(op) ==
    CASE op = "add-text" -> "addText"
      [] op = "add-table" -> "addTable"
      [] op = "add-shape" -> "addShape"
      [] op = "add-chart" -> "addChart"

\* the options object: a key whose value is undefined counts as absent
Options(op, args) ==
    [k \in HandlerKeys(op) \cap DOMAIN args |-> args[k]]

ErrorPrefix(op) ==
    CASE op = "add-text" -> <<"Error adding text to slide \"">>
      [] op = "add-table" -> <<"Error adding table to slide \"">>
      [] op = "add-shape" -> <<"Error adding shape to slide \"">>
      [] op = "add-chart" -> <<"Error adding chart to slide \"">>

OkText(op, sid) ==
    CASE op = "add-text" -> <<"Text box added to slide \"">> \o sid \o <<"\".">>
      [] op = "add-table" -> <<"Table added to slide \"">> \o sid \o <<"\".">>
      [] op = "add-shape" -> <<"Shape added to slide \"">> \o sid \o <<"\".">>
      [] op = "add-chart" -> <<"Chart added to slide \"">> \o sid \o <<"\".">>

\* what the handler returns once the arguments are parsed
HandlerResultNoCatch(op, args, throws) ==
    LET sid == args.slideId
        call == [called |-> TRUE, method |-> Method(op), opts |-> Options(op, args)]
    IN  IF ~Truthy(slides, sid)
        THEN Result(op, sid, "notFound", TRUE, TRUE, SlideNotFoundText(sid))
        ELSE IF sid \notin DOMAIN slides
        THEN Result(op, sid, "thrown", FALSE, FALSE,
                    <<"TypeError: slide.", Method(op), " is not a function">>)
        ELSE IF throws
        THEN [Result(op, sid, "thrown", FALSE, FALSE, <<"Error: collaborator failed">>)
                EXCEPT !.render = call, !.raised = TRUE]
        ELSE [Result(op, sid, "ok", TRUE, FALSE, OkText(op, sid)) EXCEPT !.render = call]
HandlerResult(op, args, throws) ==
    LET sid == args.slideId
        call == [called |-> TRUE, method |-> Method(op), opts |-> Options(op, args)]
    IN  IF ~Truthy(slides, sid)
        THEN Result(op, sid, "notFound", TRUE, TRUE, SlideNotFoundText(sid))
        ELSE IF sid \notin DOMAIN slides
        THEN \* an inherited property has no such method: TypeError inside try
             Result(op, sid, "collabError", TRUE, TRUE,
                    ErrorPrefix(op) \o sid \o <<"\": ">>
                      \o <<"TypeError: slide.", Method(op), " is not a function">>)
        ELSE IF throws
        THEN [Result(op, sid, "collabError", TRUE, TRUE,
                     ErrorPrefix(op) \o sid \o <<"\": ">> \o <<"Error: collaborator failed">>)
                EXCEPT !.render = call, !.raised = TRUE]
        ELSE [Result(op, sid, "ok", TRUE, FALSE, OkText(op, sid)) EXCEPT !.render = call]

\* a tools/call request: the schema is parsed, then the handler runs
ElementCall(op, raw, throws) ==
    /\ Alive
    /\ last' = [(IF ~Valid(op, raw)
                 THEN Result(op, raw.slideId, "invalid", FALSE, FALSE,
                             <<"MCP error -32602: Invalid arguments for tool ", op>>)
                 ELSE HandlerResult(op, Parse(op, raw), throws))
                  EXCEPT !.raw = raw, !.absent = raw.slideId \notin DOMAIN slides]
    /\ UNCHANGED <<connected, portState, file_server_port, boundPort, instances, slides,
                   used, pending, files, okCount>>

AddText(raw, throws) == ElementCall("add-text", raw, throws)
AddTable(raw, throws) == ElementCall("add-table", raw, throws)
AddShape(raw, throws) == ElementCall("add-shape", raw, throws)
AddChart(raw, throws) == ElementCall("add-chart", raw, throws)

-----------------------------------------------------------------------------
(* Sample arguments *)

BaseGeom == [x |-> 0, y |-> 0, w |-> 0, h |-> 0]

\* one field at or just beyond one of its bounds, the others at 0
Geoms ==
    {BaseGeom}
    \cup {[BaseGeom EXCEPT ![k] = v] : k \in {"x", "w"}, v \in {CoordMin - 1, XMax, XMax + 1}}
    \cup {[BaseGeom EXCEPT ![k] = v] : k \in {"y", "h"}, v \in {CoordMin - 1, YMax, YMax + 1}}

Borders == {[type |-> "solid", pt |-> p, color |-> "000000"] :
              p \in {CoordMin - 1, CoordMin, PtMax, PtMax + 1}}

PlainData == << << [text |-> "cell"] >> >>
ChartData == << [name |-> "series", labels |-> <<"l">>, values |-> <<1>>] >>

BaseRaw(op, sid) ==
    ([slideId |-> sid] @@ BaseGeom) @@
    CASE op = "add-text" -> [text |-> "Hello"]
      [] op = "add-table" -> [data |-> PlainData]
      [] op = "add-shape" -> [shape |-> "rect"]
      [] op = "add-chart" -> [chartType |-> "bar", data |-> ChartData]

\* optional arguments a caller may supply, one at a time
Extras(op) ==
    CASE op = "add-text" ->
            {[align |-> "left"], [bold |-> TRUE], [color |-> "FF0000"],
             [FontFace |-> "Arial"], [fontSize |-> 24]}
      [] op = "add-table" ->
            {[border |-> b] : b \in Borders}
            \cup {[data |-> << << [text |-> "cell", options |-> [border |-> b]] >> >>] :
                    b \in Borders}
            \cup {[colW |-> <<XMax>>], [rowH |-> <<YMax>>], [align |-> "center"],
                  [bold |-> TRUE], [color |-> "FF0000"], [fill |-> [color |-> "00FF00"]],
                  [fontSize |-> 24], [fontFace |-> "Arial"]}
      [] op = "add-shape" ->
            {[align |-> "center"], [flipH |-> TRUE], [flipV |-> TRUE],
             [line |-> [color |-> "000000", dashType |-> "solid", beginArrowType |-> "none",
                        endArrowType |-> "arrow", transparency |-> 0, width |-> 1]],
             [rectRadius |-> 50], [rotate |-> 90], [fill |-> [color |-> "00FF00"]]}
      [] op = "add-chart" -> {}

\* the calls SpecArgs makes: the base call with another geometry or one extra
Raws(op, sid) ==
    {g @@ BaseRaw(op, sid) : g \in Geoms} \cup {e @@ BaseRaw(op, sid) : e \in Extras(op)}

-----------------------------------------------------------------------------
Ports == {BASE_PORT, BASE_PORT + 1}
\* the title Spec and SpecArgs create documents with; SpecNames varies it
Titles == {<<"a">>}
\* ids a caller passes: every id handed out as a document or slide id, an id
\* never handed out, and an inherited key
DocCallIds == DOMAIN instances \cup Finalized \cup {UnknownId, ProtoKey}
SlideCallIds == DOMAIN slides \cup {UnknownId, ProtoKey}
\* the rendering collaborator may throw whenever it is invoked
Throws(sid) == IF sid \in DOMAIN slides THEN BOOLEAN ELSE {FALSE}

\* Spec draws the ids in this order (no handler inspects an id's characters);
\* SpecNames draws any unused id of NameIds
NanoIdOrder == << <<"a", "a">>, <<"a", "-">>, <<"-", "a">>, <<"-", "-">> >>
NextNanoId == NanoIdOrder[Cardinality(used) + 1]

Startup == Main \/ PortFail \/ (\E p \in Ports : PortFound(p))

Lifecycle ==
    \/ \E t \in Titles : CreatePresentation(NextNanoId, t)
    \/ \E id \in DocCallIds : AddSlide(id, NextNanoId)
    \/ \E id \in DocCallIds : GetFileUrlStart(id)
    \/ \E c \in PendingCalls : GetFileUrlWriteOk(c)
    \/ \E c \in PendingCalls : GetFileUrlWriteFail(c)

Elements ==
    \E sid \in SlideCallIds : \E throws \in Throws(sid) :
        \/ AddText(BaseRaw("add-text", sid), throws)
        \/ AddTable(BaseRaw("add-table", sid), throws)
        \/ AddShape(BaseRaw("add-shape", sid), throws)
        \/ AddChart(BaseRaw("add-chart", sid), throws)

Next == Startup \/ Lifecycle \/ Elements

Spec == Init /\ [][Next]_vars

\* the argument specification: registries are built, then every sample call is made
ElementsArgs ==
    \E sid \in SlideCallIds : \E throws \in Throws(sid) :
        \/ \E raw \in Raws("add-text", sid) : AddText(raw, throws)
        \/ \E raw \in Raws("add-table", sid) : AddTable(raw, throws)
        \/ \E raw \in Raws("add-shape", sid) : AddShape(raw, throws)
        \/ \E raw \in Raws("add-chart", sid) : AddChart(raw, throws)

NextArgs ==
    \/ Main
    \/ \E t \in Titles : CreatePresentation(NextNanoId, t)
    \/ \E id \in DocCallIds : AddSlide(id, NextNanoId)
    \/ ElementsArgs

SpecArgs == Init /\ [][NextArgs]_vars

\* the file-name specification: two documents with any ids and titles are
\* created and finalized in any interleaving
TitleAlphabet == {"-", "/", "."}
NameTitles == SeqsUpTo(TitleAlphabet, MaxTitleLen)
NameIds == { <<"a", "-">>, <<"-", "a">>, <<"-", "-">> }

NextNames ==
    \/ Main
    \/ \E id \in NameIds, t \in NameTitles :
          Cardinality(used) < 2 /\ CreatePresentation(id, t)
    \/ \E id \in DOMAIN instances : GetFileUrlStart(id)
    \/ \E c \in PendingCalls : GetFileUrlWriteOk(c)

SpecNames == Init /\ [][NextNames]_vars

-----------------------------------------------------------------------------
(* Properties *)

IsUrlResult(r) == r.op = "get-file-url" /\ r.outcome = "ok"

\* C1: once get-file-url(D) has returned a success envelope, every add-slide(D)
\* or get-file-url(D) call that starts afterwards returns an error envelope whose
\* text names D as not found; in particular no such call gets as far as the
\* file write.
C1_FinalizedIdNotFound ==
    /\ (last.op \in {"add-slide", "get-file-url"} /\ last.afterFinal) =>
          /\ last.outcome = "notFound"
          /\ last.envelope /\ last.isError
          /\ last.text = DocNotFoundText(last.id)
          /\ Contains(last.text, last.id)
    /\ \A c \in PendingCalls : ~c.afterFinal

\* an add-slide call on a finalized document id has completed
C1_Witness ==
    /\ last.op = "add-slide"
    /\ last.afterFinal
    /\ okCount[last.id] = 1

\* C2: every slide id in the slide registry was produced by add-slide on a
\* document id that is still in the document registry, and an element call on
\* the slide of a finalized document returns Not-Found.
C2_SlidesBelongToLiveDocuments ==
    /\ \A sid \in DOMAIN slides : slides[sid].doc \in DOMAIN instances
    /\ (last.op \in ElementOps /\ last.outcome # "invalid"
        /\ last.id \in DOMAIN slides /\ slides[last.id].doc \in Finalized)
          => last.outcome = "notFound"

\* C3: a call naming an id that is absent from its registry returns an error
\* envelope whose text contains the id, does not throw, does not invoke the
\* rendering collaborator and leaves both registries unchanged.
C3_UnknownIdErrorEnvelope ==
    (last.absent /\ last.outcome # "invalid") =>
        /\ last.outcome # "thrown"
        /\ last.envelope /\ last.isError
        /\ Contains(last.text, last.id)
        /\ ~last.render.called
        /\ ~last.regsChanged

OutOfRange(v, hi) == v < 0 \/ v > hi

\* the arguments C5 speaks of: x or w outside [0, 10], y or h outside [0, 5.5],
\* or a border pt of the table or of one of its cells outside [0, 10]
C5_OutOfBounds(op, raw) ==
    \/ OutOfRange(raw.x, 1000) \/ OutOfRange(raw.w, 1000)
    \/ OutOfRange(raw.y, 550) \/ OutOfRange(raw.h, 550)
    \/ /\ op = "add-table"
       /\ \/ "border" \in DOMAIN raw /\ OutOfRange(raw.border.pt, 1000)
          \/ \E r \in 1..Len(raw.data) : \E c \in 1..Len(raw.data[r]) :
                /\ "options" \in DOMAIN raw.data[r][c]
                /\ "border" \in DOMAIN raw.data[r][c].options
                /\ OutOfRange(raw.data[r][c].options.border.pt, 1000)

\* C5: an element call with a coordinate, dimension or border pt outside its
\* bounds is rejected by validation, whether or not the slide id is known, with
\* no registry change and no collaborator call; values on the bounds are accepted.
C5_OutOfBoundsRejectedFirst ==
    last.op \in ElementOps =>
        IF C5_OutOfBounds(last.op, last.raw)
        THEN /\ last.outcome = "invalid"
             /\ ~last.regsChanged
             /\ ~last.render.called
        ELSE last.outcome # "invalid"

\* add-table with a border pt just above 10 and an unknown slide id was rejected
C5_Witness ==
    /\ last.op = "add-table"
    /\ last.outcome = "invalid"
    /\ last.absent
    /\ "border" \in DOMAIN last.raw
    /\ last.raw.border.pt = 1001

\* C6: if the port search fails, the process terminates before any tool call
\* has been handled.
C6_NoCallBeforePortFailure ==
    portState = "failed" => last = NoResult

\* the title get-file-url uses for a registered document
TitleOf(id) == IF instances[id].title = <<>> THEN DefaultTitle ELSE instances[id].title

\* C7: the file names of two documents with distinct ids differ, whatever their
\* titles, so no file in FILES_DIR is written by two different documents.
C7_DistinctFileNames ==
    /\ \A d1, d2 \in DOMAIN instances :
          d1 # d2 => FileName(TitleOf(d1), d1) # FileName(TitleOf(d2), d2)
    /\ \A c1, c2 \in PendingCalls :
          c1.id # c2.id => FileName(c1.title, c1.id) # FileName(c2.title, c2.id)
    /\ \A path \in DOMAIN files : Cardinality(files[path]) <= 1

\* two documents have been finalized, each written to a file of its own
C7_Witness ==
    /\ Cardinality(DOMAIN files) = 2
    /\ \A id \in used : okCount[id] = 1
    /\ IsUrlResult(last)

\* the options a caller supplied: everything but the slide id and the
\* positional arguments
SuppliedOptions(op, raw) ==
    DOMAIN raw \ ({"slideId"} \cup {PositionalKeys(op)[i] : i \in 1..Len(PositionalKeys(op))})

\* C8: for a known slide id, every option the caller supplied reaches the
\* rendering collaborator with the same value.
C8_AllSuppliedOptionsForwarded ==
    (last.op \in ElementOps /\ last.render.called) =>
        \A k \in SuppliedOptions(last.op, last.raw) :
            /\ k \in DOMAIN last.render.opts
            /\ last.render.opts[k] = last.raw[k]

\* C9: for every document id at most one get-file-url call returns a success
\* envelope, overlapping calls included.
C9_AtMostOneSuccess ==
    \A id \in NanoIds : okCount[id] <= 1

\* C10: the port in a URL returned by get-file-url is the port the file server
\* is bound to, also when the port search completes after the call.
C10_UrlNamesBoundPort ==
    (IsUrlResult(last) /\ portState = "found") => last.url.port = boundPort

=============================================================================
